---- MODULE Spec2Model ----
(***************************************************************************)
(* A model of the merde command-line client (merde-bot/merde-cli).         *)
(*                                                                         *)
(* Four parts of the client are modelled, each with its own specification: *)
(*                                                                         *)
(*   Spec    the streaming response protocol: doRequest (src/http.go), the *)
(*           pull iterator that decodes a multipart response, driven by    *)
(*           the range loops that consume it (processDeconflictRequest,    *)
(*           doRoot/doAuth/doHelp in src/main.go) and Response.Process.    *)
(*                                                                         *)
(*   SpecUA  Git.UniqueAncestorMergeBase (src/main.go): the loop that      *)
(*           replaces a set of commits by its merge bases, run against a   *)
(*           commit graph and `git merge-base --all`.                      *)
(*                                                                         *)
(*   SpecVP  Git.varyingPaths (src/main.go): the loop over the listings of *)
(*           a sequence of trees that collects the ids that vary by path.  *)
(*                                                                         *)
(*   SpecMP  Git.MergePack (src/main.go) and its caller: ancestor          *)
(*           resolution, commitsBetween, treesReferenced, varyingPaths and *)
(*           packObjects, run against a repository, then the upload.       *)
(***************************************************************************)
EXTENDS Integers, Sequences, FiniteSets, TLC

VARIABLES
    \* ---- the response stream (doRequest and its consumer) ----
    caller,     \* which range loop consumes the stream: "deconflict" or "root"
    resp,       \* the server's answer to the request (fixed for one run)
    pc,         \* position of the single goroutine, see the actions
    cur,        \* the item handed to yield, while the loop body runs
    yielded,    \* every item handed to yield so far, in order
    partsRead,  \* number of parts mr.NextPart has returned
    opened,     \* http Do returned a response; defer resp.Body.Close() is armed
    closed,     \* resp.Body.Close() has run
    drained,    \* io.ReadAll(resp.Body) has run
    refs,       \* references existing in the local repository
    imported,   \* packs unpacked into the local repository, in order
    stdout,     \* texts printed to standard output, in order
    stderr,     \* texts printed to standard error, in order
    effects,    \* log of the side effects applied, in order
    processed,  \* number of yielded messages the loop body has handled
    result,     \* what the consuming function returned, once pc = "done"
    exitCode,   \* the code given to os.Exit, once pc = "exited"
    \* ---- UniqueAncestorMergeBase ----
    parents,    \* the commit graph: parents[c] is the set of parents of c
    tips,       \* <<main, topic>>, the commits handed to MergePack
    commits,    \* the loop variable `commits` of UniqueAncestorMergeBase
    uaPc,       \* "idle", "loop" or "done"
    uaQueries,  \* number of merge-base queries run so far
    uaLast,     \* outcome of the last merge-base query
    uaResult,   \* the (id, err) pair returned, once uaPc = "done"
    \* ---- varyingPaths ----
    vpTrees,      \* the argument `trees`: the names handed to ls-tree, in order
    vpNext,       \* index of the tree the outer loop takes next
    pathContents, \* the map pathContents: path -> contents{typ, sha, varies}
    varying,      \* the slice `varying`, in append order
    vpPc,         \* "idle", "loop" or "done"
    vpResult,     \* the (varying, err) pair returned, once vpPc = "done"
    \* ---- MergePack and its caller ----
    treeOf,     \* the root tree of every commit: treeOf[c] is a snapshot
    mpPc,       \* position inside MergePack and makeDeconflictRequestInfo
    mpCalls,    \* the steps of MergePack invoked so far, in order
    mpCommits,  \* the slice `commits` of MergePack
    mpTrees,    \* the slice `trees` of MergePack
    need,       \* the slice `need` handed to packObjects
    mpResult,   \* the (pack, err) pair MergePack returned
    uploaded,   \* the deconflict request has been sent
    \* ---- Remotes and deconflictRequest ----
    remoteURLs, \* the configured remotes, in order: the URLs of each
    rmPc,       \* position inside Remotes and deconflictRequest
    rmNames,    \* the slice `remotes` of Remotes: the names `git remote` printed
    rmNext,     \* index of the remote the loop of Remotes takes next
    all,        \* the slice `all` of Remotes
    rmResult,   \* the (all, err) pair Remotes returned
    reqHeaders  \* the headers of the request deconflictRequest built

streamVars == <<caller, resp, pc, cur, yielded, partsRead, opened, closed, drained,
                refs, imported, stdout, stderr, effects, processed, result, exitCode>>
uaVars == <<parents, tips, commits, uaPc, uaQueries, uaLast, uaResult>>
vpVars == <<vpTrees, vpNext, pathContents, varying, vpPc, vpResult>>
mpVars == <<treeOf, mpPc, mpCalls, mpCommits, mpTrees, need, mpResult, uploaded>>
rmVars == <<remoteURLs, rmPc, rmNames, rmNext, all, rmResult, reqHeaders>>
vars == <<streamVars, uaVars, vpVars, mpVars, rmVars>>

----------------------------------------------------------------------------
(* Bounds of the model. *)

\* longest multipart body of a response that passes the header checks
MaxParts == 3
\* longest multipart body of a response that fails a header check
MaxPartsOnFailure == 1
\* number of commits in the commit graph
MaxCommits == 4

----------------------------------------------------------------------------
(* Helpers. *)

SeqsUpTo(S, n) == UNION {[1..k -> S] : k \in 0..n}

IsPrefix(s, t) == Len(s) <= Len(t) /\ SubSeq(t, 1, Len(s)) = s

\* the absent error / absent value
Nil == [kind |-> "nil", code |-> 0, detail |-> <<>>]
Err(kind, code, detail) == [kind |-> kind, code |-> code, detail |-> detail]

----------------------------------------------------------------------------
(* The client's protocol constants. *)

apiResponseVersion == "1"
StatusOK == 200

(***************************************************************************)
(* Response, the union of a JSON message and a binary message.             *)
(***************************************************************************)
Response(isJSON, out, err, exit, ref, sha, data) ==
    [IsJSON |-> isJSON, Stdout |-> out, Stderr |-> err, ExitCode |-> exit,
     Ref |-> ref, SHA |-> sha, Data |-> data]

NoResponse == Response(FALSE, "", "", 0, "", "", <<>>)

\* an item of the stream: the two arguments of yield
Item(r, e) == [msg |-> r, err |-> e]
IsError(it) == it.err # Nil
IsMessage(it) == it.err = Nil

----------------------------------------------------------------------------
(* The server's response: what the environment supplies to doRequest.      *)

\* One MIME part of the body.  env is FALSE where the multipart envelope is
\* malformed (mr.NextPart fails there); ok is FALSE where the part's content
\* fails to decode (JSON) or to be read to its end (octet-stream); fields are
\* the members of the JSON object; data are the bytes of the part.
Part(env, ctype, ok, fields, data) ==
    [env |-> env, ctype |-> ctype, ok |-> ok, fields |-> fields, data |-> data]

JSONPart(out, err, exit, ref, sha) ==
    Part(TRUE, "application/json", TRUE, Response(FALSE, out, err, exit, ref, sha, <<>>), <<>>)
BadJSONPart == Part(TRUE, "application/json", FALSE, NoResponse, <<"{">>)
BinaryPart(data) == Part(TRUE, "application/octet-stream", TRUE, NoResponse, data)
TruncatedBinaryPart(data) == Part(TRUE, "application/octet-stream", FALSE, NoResponse, data)
OtherPart == Part(TRUE, "text/plain", TRUE, NoResponse, <<"t">>)
BrokenEnvelope == Part(FALSE, "", FALSE, NoResponse, <<>>)

\* the parts a response is built from
Parts ==
    { JSONPart("o", "", 0, "", ""),
      JSONPart("", "", 0, "r", "s"),
      JSONPart("", "", 0, "q", "s"),
      JSONPart("", "e", 0, "r", ""),
      JSONPart("o", "e", 2, "", ""),
      JSONPart("o", "", 2, "r", "s"),
      JSONPart("o", "e", 2, "q", "s"),
      JSONPart("", "e", -1, "", ""),
      BadJSONPart,
      BinaryPart(<<"P", "a">>),
      BinaryPart(<<"P", "b", "c">>),
      BinaryPart(<<"x">>),
      TruncatedBinaryPart(<<"P">>),
      OtherPart,
      BrokenEnvelope }

\* values of the Content-Type header of the response
MultipartHeader == "multipart/mixed; boundary=b"
ContentTypes == {MultipartHeader, "text/plain", ""}
Versions == {"1", "2"}
\* body texts of a non-200 answer, and how many of its bytes can be read
\* before the connection fails (all of them: no failure)
Texts == {<<>>, <<"n", "o">>}

HTTPResponse(connected, status, version, ctype, text, readable, parts) ==
    [connected |-> connected, status |-> status, version |-> version, ctype |-> ctype,
     text |-> text, readable |-> readable, parts |-> parts]

PassesHeaders(r) ==
    r.connected /\ r.status = StatusOK /\ r.version = apiResponseVersion
                /\ r.ctype = MultipartHeader

Responses ==
    {HTTPResponse(TRUE, StatusOK, apiResponseVersion, MultipartHeader, <<>>, 0, ps) :
        ps \in SeqsUpTo(Parts, MaxParts)}
    \cup
    {r \in {HTTPResponse(c, s, v, t, <<>>, 0, ps) :
              c \in BOOLEAN, s \in {StatusOK}, v \in Versions, t \in ContentTypes,
              ps \in SeqsUpTo(Parts, MaxPartsOnFailure)} : ~PassesHeaders(r)}
    \cup
    UNION {{HTTPResponse(TRUE, 404, v, t, txt, n, ps) :
               v \in Versions, t \in ContentTypes,
               n \in 0..Len(txt), ps \in SeqsUpTo(Parts, MaxPartsOnFailure)} : txt \in Texts}

----------------------------------------------------------------------------
(* doRequest, src/http.go:118-194.                                         *)

\* mime.ParseMediaType of the Content-Type header: the media type, or "" with
\* ok FALSE when the header does not parse.
ParseMediaType(h) ==
    CASE h = MultipartHeader -> [mediaType |-> "multipart/mixed", ok |-> TRUE]
      [] h = "text/plain"    -> [mediaType |-> "text/plain", ok |-> TRUE]
      [] OTHER               -> [mediaType |-> "", ok |-> FALSE]

\* strings.HasPrefix(mediaType, "multipart/")
IsMultipart(mediaType) == mediaType \in {"multipart/mixed", "multipart/form-data"}

\* io.ReadAll(resp.Body) with its error dropped: the bytes read before the failure
ReadAll(r) == SubSeq(r.text, 1, IF r.readable < Len(r.text) THEN r.readable ELSE Len(r.text))

\* HeaderError without the version gate of lines 136-141
HeaderError_NoVersionGate(r) ==
    IF ~r.connected THEN Err("connection", 0, <<>>)
    ELSE IF r.status # StatusOK THEN Err("status", r.status, ReadAll(r))
    ELSE IF ~ParseMediaType(r.ctype).ok THEN Err("mediatype", 0, <<>>)
    ELSE IF ~IsMultipart(ParseMediaType(r.ctype).mediaType)
         THEN Err("content-type", 0, <<ParseMediaType(r.ctype).mediaType>>)
    ELSE Nil

\* HeaderError without the multipart check of lines 148-152
HeaderError_NoMultipartCheck(r) ==
    IF ~r.connected THEN Err("connection", 0, <<>>)
    ELSE IF r.status # StatusOK THEN Err("status", r.status, ReadAll(r))
    ELSE IF r.version # apiResponseVersion THEN Err("version", 0, <<r.version>>)
    ELSE IF ~ParseMediaType(r.ctype).ok THEN Err("mediatype", 0, <<>>)
    ELSE Nil

\* lines 120-152: the error yielded before any part is looked at, or Nil
HeaderError(r) ==
    IF ~r.connected THEN Err("connection", 0, <<>>)
    ELSE IF r.status # StatusOK THEN Err("status", r.status, ReadAll(r))
    ELSE IF r.version # apiResponseVersion THEN Err("version", 0, <<r.version>>)
    ELSE IF ~ParseMediaType(r.ctype).ok THEN Err("mediatype", 0, <<>>)
    ELSE IF ~IsMultipart(ParseMediaType(r.ctype).mediaType)
         THEN Err("content-type", 0, <<ParseMediaType(r.ctype).mediaType>>)
    ELSE Nil

\* DecodePart that keeps only the first chunk of an octet-stream part
DecodePart_FirstChunk(p) ==
    CASE p.ctype = "application/json" ->
            IF p.ok THEN Item([p.fields EXCEPT !.IsJSON = TRUE], Nil)
                    ELSE Item(NoResponse, Err("json", 0, <<>>))
      [] p.ctype = "application/octet-stream" ->
            IF p.ok THEN Item(Response(FALSE, "", "", 0, "", "", SubSeq(p.data, 1, 1)), Nil)
                    ELSE Item(NoResponse, Err("read", 0, <<>>))
      [] OTHER -> Item(NoResponse, Err("part-content-type", 0, <<p.ctype>>))

\* DecodePart that takes a part of any other type for binary data
DecodePart_DefaultBinary(p) ==
    CASE p.ctype = "application/json" ->
            IF p.ok THEN Item([p.fields EXCEPT !.IsJSON = TRUE], Nil)
                    ELSE Item(NoResponse, Err("json", 0, <<>>))
      [] OTHER ->
            IF p.ok THEN Item(Response(FALSE, "", "", 0, "", "", p.data), Nil)
                    ELSE Item(NoResponse, Err("read", 0, <<>>))

\* lines 164-191: the item made of one part
DecodePart(p) ==
    CASE p.ctype = "application/json" ->
            IF p.ok THEN Item([p.fields EXCEPT !.IsJSON = TRUE], Nil)
                    ELSE Item(NoResponse, Err("json", 0, <<>>))
      [] p.ctype = "application/octet-stream" ->
            IF p.ok THEN Item(Response(FALSE, "", "", 0, "", "", p.data), Nil)
                    ELSE Item(NoResponse, Err("read", 0, <<>>))
      [] OTHER -> Item(NoResponse, Err("part-content-type", 0, <<p.ctype>>))

\* AfterYield with the `return` after yield(nil, err) missing
AfterYield_NoReturnAfterError(it, more) ==
    IF IsError(it) THEN "next" ELSE IF more THEN "next" ELSE "unwind"

\* AfterYield that drops the result of yield(r, nil)
AfterYield_IgnoresStop(it, more) ==
    IF IsError(it) THEN "unwind" ELSE "next"

\* where the iterator goes when yield returns: after an error it returns
\* whatever yield said; after a message it returns only if yield said false
AfterYield(it, more) ==
    IF IsError(it) THEN "unwind" ELSE IF more THEN "next" ELSE "unwind"

\* defer resp.Body.Close(), line 125: runs when the iterator returns, if armed
DeferredClose(armed) == armed

----------------------------------------------------------------------------
(* The consumers of the stream, src/main.go and src/http.go:95-116.        *)

Callers == {"deconflict", "root"}

\* one entry of the log of side effects
Effect(what, arg) == [what |-> what, arg |-> arg]

\* Git.CreateRef, src/main.go:463-471: `update-ref create` fails if the
\* reference exists already
CreateRefFails(rs, ref) == ref \in rs

\* Git.UnpackObjects, src/main.go:651-658: `unpack-objects` fails on bytes
\* that are no pack (a pack starts with its signature)
UnpackFails(data) == Len(data) = 0 \/ data[1] # "P"

\* RefsAfter that undoes the references made so far when a creation fails
RefsAfter_UndoOnFailure(r, rs) ==
    IF r.IsJSON /\ r.Ref # "" /\ r.SHA # ""
    THEN (IF CreateRefFails(rs, r.Ref) THEN {} ELSE rs \cup {r.Ref})
    ELSE rs

\* the references after Process has handled r
RefsAfter(r, rs) ==
    IF r.IsJSON /\ r.Ref # "" /\ r.SHA # "" /\ ~CreateRefFails(rs, r.Ref)
    THEN rs \cup {r.Ref} ELSE rs

\* Process that prints before it creates the reference
Process_PrintsFirst(r, rs) ==
    LET create  == r.Ref # "" /\ r.SHA # ""
        created == IF create /\ ~CreateRefFails(rs, r.Ref)
                   THEN <<Effect("create-ref", r.Ref)>> ELSE <<>>
        out     == IF r.Stdout # "" THEN <<Effect("stdout", r.Stdout)>> ELSE <<>>
        err     == IF r.Stderr # "" THEN <<Effect("stderr", r.Stderr)>> ELSE <<>>
    IN  IF ~r.IsJSON
        THEN [done |-> FALSE, err |-> Nil, exit |-> 0, log |-> <<>>]
        ELSE IF create /\ CreateRefFails(rs, r.Ref)
        THEN [done |-> FALSE, err |-> Err("create-ref", 0, <<r.Ref>>), exit |-> 0,
              log |-> out \o err]
        ELSE IF r.ExitCode > 0
        THEN [done |-> FALSE, err |-> Nil, exit |-> r.ExitCode,
              log |-> out \o err \o created \o <<Effect("exit", "")>>]
        ELSE [done |-> TRUE, err |-> Nil, exit |-> 0, log |-> out \o err \o created]

\* Process that prints but does not honour the exit code
Process_NoExit(r, rs) ==
    LET create  == r.Ref # "" /\ r.SHA # ""
        created == IF create THEN <<Effect("create-ref", r.Ref)>> ELSE <<>>
        out     == IF r.Stdout # "" THEN <<Effect("stdout", r.Stdout)>> ELSE <<>>
        err     == IF r.Stderr # "" THEN <<Effect("stderr", r.Stderr)>> ELSE <<>>
    IN  IF ~r.IsJSON
        THEN [done |-> FALSE, err |-> Nil, exit |-> 0, log |-> <<>>]
        ELSE IF create /\ CreateRefFails(rs, r.Ref)
        THEN [done |-> FALSE, err |-> Err("create-ref", 0, <<r.Ref>>), exit |-> 0, log |-> <<>>]
        ELSE [done |-> TRUE, err |-> Nil, exit |-> 0, log |-> created \o out \o err]

\* Response.Process, src/http.go:96-116.  done and err are its two results;
\* exit is the code it gave to os.Exit (0: it returned); log lists the
\* effects it applied, in order.
Process(r, rs) ==
    LET create  == r.Ref # "" /\ r.SHA # ""
        created == IF create THEN <<Effect("create-ref", r.Ref)>> ELSE <<>>
        out     == IF r.Stdout # "" THEN <<Effect("stdout", r.Stdout)>> ELSE <<>>
        err     == IF r.Stderr # "" THEN <<Effect("stderr", r.Stderr)>> ELSE <<>>
    IN  IF ~r.IsJSON
        THEN [done |-> FALSE, err |-> Nil, exit |-> 0, log |-> <<>>]
        ELSE IF create /\ CreateRefFails(rs, r.Ref)
        THEN [done |-> FALSE, err |-> Err("create-ref", 0, <<r.Ref>>), exit |-> 0, log |-> <<>>]
        ELSE IF r.ExitCode > 0
        THEN [done |-> FALSE, err |-> Nil, exit |-> r.ExitCode,
              log |-> created \o out \o err \o <<Effect("exit", "")>>]
        ELSE [done |-> TRUE, err |-> Nil, exit |-> 0, log |-> created \o out \o err]

\* the texts of one kind ("stdout" or "stderr") in a log
LogTexts(log, what) ==
    LET idx == {i \in 1..Len(log) : log[i].what = what}
    IN  IF idx = {} THEN <<>> ELSE <<log[CHOOSE i \in idx : TRUE].arg>>

\* a loop body that leaves binary messages alone
Unpacks_Nobody(who) == FALSE

\* the loop body's use of a binary message: processDeconflictRequest unpacks
\* it (src/main.go:321-327); doRoot, doAuth and doHelp ignore it
\* (src/main.go:46, 116, 138)
Unpacks(who) == who = "deconflict"

----------------------------------------------------------------------------
(* The stream's state machine.                                             *)

InitUA0 ==
    /\ parents = <<>>
    /\ tips = <<>>
    /\ commits = <<>>
    /\ uaPc = "idle"
    /\ uaQueries = 0
    /\ uaLast = [bases |-> <<>>, err |-> Nil, exit |-> 0]
    /\ uaResult = [id |-> 0, err |-> Nil]

InitVP0 ==
    /\ vpTrees = <<>>
    /\ vpNext = 0
    /\ pathContents = <<>>
    /\ varying = <<>>
    /\ vpPc = "idle"
    /\ vpResult = [varying |-> <<>>, err |-> Nil]

InitRM0 ==
    /\ remoteURLs = <<>>
    /\ rmPc = "idle"
    /\ rmNames = <<>>
    /\ rmNext = 0
    /\ all = <<>>
    /\ rmResult = [all |-> <<>>, err |-> Nil]
    /\ reqHeaders = <<>>

InitMP0 ==
    /\ treeOf = <<>>
    /\ mpPc = "idle"
    /\ mpCalls = <<>>
    /\ mpCommits = <<>>
    /\ mpTrees = <<>>
    /\ need = <<>>
    /\ mpResult = [pack |-> [made |-> FALSE, objects |-> {}], err |-> Nil]
    /\ uploaded = FALSE

Init ==
    /\ caller \in Callers
    /\ resp \in Responses
    /\ pc = "request"
    /\ cur = Item(NoResponse, Nil)
    /\ yielded = <<>>
    /\ partsRead = 0
    /\ opened = FALSE
    /\ closed = FALSE
    /\ drained = FALSE
    /\ refs = {}
    /\ imported = <<>>
    /\ stdout = <<>>
    /\ stderr = <<>>
    /\ effects = <<>>
    /\ processed = 0
    /\ result = Nil
    /\ exitCode = 0
    /\ InitUA0
    /\ InitVP0
    /\ InitMP0
    /\ InitRM0

\* yield(it): the item is handed to the loop body
Yield(it) ==
    /\ cur' = it
    /\ yielded' = Append(yielded, it)
    /\ pc' = "body"

\* src/http.go:120-153: send the request and check the answer's headers
SendRequest ==
    /\ pc = "request"
    /\ opened' = resp.connected
    /\ drained' = (resp.connected /\ resp.status # StatusOK)
    /\ IF HeaderError(resp) # Nil
       THEN Yield(Item(NoResponse, HeaderError(resp)))
       ELSE pc' = "next" /\ UNCHANGED <<cur, yielded>>
    /\ UNCHANGED <<caller, resp, partsRead, closed, refs, imported, stdout, stderr,
                   effects, processed, result, exitCode, uaVars, vpVars, mpVars, rmVars>>

\* src/http.go:155-192: one turn of the loop over the parts, up to its yield
NextPart ==
    /\ pc = "next"
    /\ IF partsRead = Len(resp.parts)
       THEN \* io.EOF: the loop ends, the range loop ends, the caller returns nil
            /\ pc' = "unwind"
            /\ result' = Nil
            /\ UNCHANGED <<cur, yielded, partsRead>>
       ELSE LET p == resp.parts[partsRead + 1]
            IN  /\ IF p.env
                   THEN partsRead' = partsRead + 1 /\ Yield(DecodePart(p))
                   ELSE UNCHANGED partsRead
                        /\ Yield(Item(NoResponse, Err("envelope", 0, <<>>)))
                /\ UNCHANGED result
    /\ UNCHANGED <<caller, resp, opened, closed, drained, refs, imported, stdout, stderr,
                   effects, processed, exitCode, uaVars, vpVars, mpVars, rmVars>>

\* the loop body on an error item: `return err`
\* (src/main.go:314-316, 43-45, 113-115, 135-137)
BodyError ==
    /\ pc = "body"
    /\ IsError(cur)
    /\ result' = cur.err
    /\ pc' = AfterYield(cur, FALSE)
    /\ UNCHANGED <<caller, resp, cur, yielded, partsRead, opened, closed, drained, refs,
                   imported, stdout, stderr, effects, processed, exitCode, uaVars, vpVars, mpVars,
                   rmVars>>

\* the loop body on a message: Process, then UnpackObjects for binary data
\* (src/main.go:317-327, 46-49, 116-119, 138-141)
BodyMessage ==
    /\ pc = "body"
    /\ IsMessage(cur)
    /\ LET r == cur.msg
           p == Process(r, refs)
           unpack == ~p.done /\ p.err = Nil /\ p.exit = 0 /\ Unpacks(caller)
           failed == IF p.err # Nil THEN p.err
                     ELSE IF unpack /\ UnpackFails(r.Data) THEN Err("unpack", 0, <<>>)
                     ELSE Nil
       IN  /\ refs' = RefsAfter(r, refs)
           /\ stdout' = stdout \o LogTexts(p.log, "stdout")
           /\ stderr' = stderr \o LogTexts(p.log, "stderr")
           /\ imported' = IF unpack /\ ~UnpackFails(r.Data)
                          THEN Append(imported, r.Data) ELSE imported
           /\ effects' = effects \o p.log \o
                         (IF unpack /\ ~UnpackFails(r.Data)
                          THEN <<Effect("unpack", "")>> ELSE <<>>)
           /\ processed' = processed + 1
           /\ IF p.exit > 0
              THEN pc' = "exited" /\ exitCode' = p.exit /\ UNCHANGED result
              ELSE /\ pc' = AfterYield(cur, failed = Nil)
                   /\ result' = failed
                   /\ UNCHANGED exitCode
    /\ UNCHANGED <<caller, resp, cur, yielded, partsRead, opened, closed, drained, uaVars, vpVars, mpVars,
                   rmVars>>

\* the iterator returns (its deferred Close runs) and with it the caller
Return ==
    /\ pc = "unwind"
    /\ closed' = DeferredClose(opened)
    /\ pc' = "done"
    /\ UNCHANGED <<caller, resp, cur, yielded, partsRead, opened, drained, refs, imported,
                   stdout, stderr, effects, processed, result, exitCode, uaVars, vpVars, mpVars,
                   rmVars>>

Next == SendRequest \/ NextPart \/ BodyError \/ BodyMessage \/ Return

Spec == Init /\ [][Next]_vars

----------------------------------------------------------------------------
(* Git.UniqueAncestorMergeBase, src/main.go:435-451, over a commit graph.  *)

\* commit ids; EmptyId is the empty string the function returns for "none"
CommitIds == 1..MaxCommits
EmptyId == 0

\* the commit graphs: every commit's parents are older commits
Graphs == {g \in [CommitIds -> SUBSET CommitIds] : \A c \in CommitIds : g[c] \subseteq 1..(c - 1)}

\* the commits reachable from c, c included
RECURSIVE Anc(_)
Anc(c) == {c} \cup UNION {Anc(p) : p \in parents[c]}

\* all orders in which a set of ids can be printed
Orderings(S) == {o \in [1..Cardinality(S) -> S] : \A i, j \in 1..Cardinality(S) : o[i] = o[j] => i = j}

\* exit statuses of git
ExitOK == 0
ExitNone == 1
ExitFatal == 128

\* `git merge-base --all c1 c2 ...`: the best common ancestors of c1 and of a
\* merge of c2 ..., that is the common ancestors none of which is reachable
\* from another; it prints nothing and exits 1 when there is none.
BestCommonAncestors(cs) ==
    LET common == {c \in Anc(cs[1]) : \E i \in 2..Len(cs) : c \in Anc(cs[i])}
    IN  {c \in common : \A d \in common \ {c} : c \notin Anc(d)}

GitMergeBase(cs, order) ==
    IF BestCommonAncestors(cs) = {}
    THEN [exit |-> ExitNone, lines |-> <<>>]
    ELSE [exit |-> ExitOK, lines |-> order]

\* the exit statuses a command run without AllowExitCodes accepts
\* (compare HasUpstream, src/main.go:476-487, which allows 128)
AllowedExitCodes == {ExitOK}

\* Git.MergeBases, src/main.go:425-433: the lines printed, or the error of a
\* run that ended with a status that is not allowed
MergeBases(run) ==
    IF run.exit \in AllowedExitCodes
    THEN [bases |-> run.lines, err |-> Nil, exit |-> run.exit]
    ELSE [bases |-> <<>>, err |-> Err("git", run.exit, <<>>), exit |-> run.exit]

\* Decide that goes round again when the query failed
Decide_RetryOnError(q, cs) ==
    IF q.err # Nil THEN [again |-> TRUE, commits |-> cs, id |-> EmptyId, err |-> Nil]
    ELSE IF Len(q.bases) = 0 THEN [again |-> FALSE, commits |-> cs, id |-> EmptyId, err |-> Nil]
    ELSE IF Len(q.bases) = 1 THEN [again |-> FALSE, commits |-> cs, id |-> q.bases[1], err |-> Nil]
    ELSE [again |-> TRUE, commits |-> q.bases, id |-> EmptyId, err |-> Nil]

\* src/main.go:440-449: what the loop does with the outcome q of the query,
\* cs being its commits: it returns (id, err), or (again) goes round with the
\* bases as the new commits
Decide(q, cs) ==
    IF q.err # Nil THEN [again |-> FALSE, commits |-> cs, id |-> EmptyId, err |-> q.err]
    ELSE IF Len(q.bases) = 0 THEN [again |-> FALSE, commits |-> cs, id |-> EmptyId, err |-> Nil]
    ELSE IF Len(q.bases) = 1 THEN [again |-> FALSE, commits |-> cs, id |-> q.bases[1], err |-> Nil]
    ELSE [again |-> TRUE, commits |-> q.bases, id |-> EmptyId, err |-> Nil]

InitStream0 ==
    /\ caller = "deconflict"
    /\ resp = HTTPResponse(FALSE, 0, "", "", <<>>, 0, <<>>)
    /\ pc = "idle"
    /\ cur = Item(NoResponse, Nil)
    /\ yielded = <<>>
    /\ partsRead = 0
    /\ opened = FALSE
    /\ closed = FALSE
    /\ drained = FALSE
    /\ refs = {}
    /\ imported = <<>>
    /\ stdout = <<>>
    /\ stderr = <<>>
    /\ effects = <<>>
    /\ processed = 0
    /\ result = Nil
    /\ exitCode = 0

InitUA ==
    /\ parents \in Graphs
    /\ tips \in CommitIds \X CommitIds
    /\ commits = tips
    /\ uaPc = "query"
    /\ uaQueries = 0
    /\ uaLast = MergeBases([exit |-> ExitOK, lines |-> <<>>])
    /\ uaResult = [id |-> EmptyId, err |-> Nil]
    /\ InitStream0
    /\ InitVP0
    /\ InitMP0
    /\ InitRM0

\* line 439: run the query; git may fail for reasons of its own (fatal), and
\* prints the bases in an order of its choosing
QueryMergeBases ==
    /\ uaPc = "query"
    /\ \E fatal \in BOOLEAN, order \in Orderings(BestCommonAncestors(commits)) :
         uaLast' = MergeBases(IF fatal THEN [exit |-> ExitFatal, lines |-> <<>>]
                              ELSE GitMergeBase(commits, order))
    /\ uaQueries' = uaQueries + 1
    /\ uaPc' = "switch"
    /\ UNCHANGED <<parents, tips, commits, uaResult, streamVars, vpVars, mpVars, rmVars>>

\* lines 440-449: return, or go round with the bases
SwitchOnBases ==
    /\ uaPc = "switch"
    /\ LET d == Decide(uaLast, commits)
       IN  IF d.again
           THEN commits' = d.commits /\ uaPc' = "query" /\ UNCHANGED uaResult
           ELSE uaResult' = [id |-> d.id, err |-> d.err] /\ uaPc' = "done"
                /\ UNCHANGED commits
    /\ UNCHANGED <<parents, tips, uaQueries, uaLast, streamVars, vpVars, mpVars, rmVars>>

NextUA == QueryMergeBases \/ SwitchOnBases

SpecUA == InitUA /\ [][NextUA]_vars

----------------------------------------------------------------------------
(* The output of a git command as xc hands it on.                          *)

\* the text a command printed: its fields in order, each followed by the
\* separator ("\n", or "\x00" under -z)
Output(fields) == [fields |-> fields, terminated |-> fields # <<>>]

\* Result.TrimSpace: the trailing separator goes
TrimSpace(out) == [out EXCEPT !.terminated = FALSE]

\* Split that cuts the empty text into one empty field
Split_OneEmptyField(out, empty) ==
    IF out.fields = <<>> THEN <<empty>>
    ELSE IF out.terminated THEN Append(out.fields, empty)
    ELSE out.fields

\* Result.Split: an empty output has no field (the case 0 of
\* UniqueAncestorMergeBase, src/main.go:442-444, relies on it); any other text
\* is cut at every separator, so that a terminated text ends with one empty
\* field
Split(out, empty) ==
    IF out.fields = <<>> THEN <<>>
    ELSE IF out.terminated THEN Append(out.fields, empty)
    ELSE out.fields

\* the error of a run that ended with a status that is not allowed
RunError(run) ==
    IF run.exit \in AllowedExitCodes THEN Nil ELSE Err("git", run.exit, <<>>)

\* a run that git ended on a failure of its own
FatalRun == [exit |-> ExitFatal, out |-> Output(<<>>)]

----------------------------------------------------------------------------
(* The trees of a repository.                                              *)

\* an entry of a tree: the kind and id of the object at one path
Entry(typ, sha) == [typ |-> typ, sha |-> sha]
NoEntry == Entry("", 0)

\* the objects a root tree can hold at its two paths: at "a" a file in one of
\* two versions or a submodule; at "d" nothing, a file, or a directory that
\* holds the single file "d/x" in one of two versions
Blobs == {Entry("blob", 21), Entry("blob", 22)}
Submodule == Entry("commit", 90)
Dirs == {Entry("tree", 31), Entry("tree", 32)}

\* the file "d/x" of a directory: its id determines the directory's id
DirFile(dir) == Entry("blob", dir.sha - 10)

\* a root tree, by content
Snapshots == [a : Blobs \cup {Submodule}, d : {NoEntry, Entry("blob", 22)} \cup Dirs]

\* the id of a root tree: a function of its content, distinct for distinct
\* contents
TreeId(s) ==
    100 + 10 * (s.a.sha % 10) + (s.d.sha % 10) + (IF s.d.typ = "tree" THEN 5 ELSE 0)

TreeIds == {TreeId(s) : s \in Snapshots}
SnapshotOf(id) == CHOOSE s \in Snapshots : TreeId(s) = id

Paths == {"a", "d", "d/x"}

\* one line "<objecttype> <objectname> <path>" of ls-tree, cut into its three
\* parts; EmptyLine is the empty string
Line(typ, sha, path) == [typ |-> typ, sha |-> sha, path |-> path]
EmptyLine == Line("", 0, "")

\* ls-tree without -t: the directories themselves are not listed
LsTreeLines_NoDirs(s) ==
    <<Line(s.a.typ, s.a.sha, "a")>>
    \o (IF s.d = NoEntry \/ s.d.typ = "tree" THEN <<>>
        ELSE <<Line(s.d.typ, s.d.sha, "d")>>)
    \o (IF s.d.typ = "tree"
        THEN <<Line(DirFile(s.d).typ, DirFile(s.d).sha, "d/x")>> ELSE <<>>)

\* `git ls-tree -r -t -z --format=... tree`: every entry of the tree in path
\* order, directories listed (-t) and entered (-r), submodules listed only
LsTreeLines(s) ==
    <<Line(s.a.typ, s.a.sha, "a")>>
    \o (IF s.d = NoEntry THEN <<>> ELSE <<Line(s.d.typ, s.d.sha, "d")>>)
    \o (IF s.d.typ = "tree"
        THEN <<Line(DirFile(s.d).typ, DirFile(s.d).sha, "d/x")>> ELSE <<>>)

\* a name that is not a tree of the repository is a fatal error of git
GitLsTree(name) ==
    IF name \in TreeIds
    THEN [exit |-> ExitOK, out |-> Output(LsTreeLines(SnapshotOf(name)))]
    ELSE FatalRun

----------------------------------------------------------------------------
(* Git.varyingPaths, src/main.go:539-603.                                  *)

\* longest sequence of trees handed to varyingPaths
MaxTrees == 3

\* type contents, src/main.go:541-545, and its zero value
Contents(typ, sha, varies) == [typ |-> typ, sha |-> sha, varies |-> varies]
NoContents == Contents("", 0, FALSE)

\* the ids are 40 characters long
ValidSha(sha) == sha > 0

\* the state of the scan: the two locals and the error to return
Scan(m, v, err) == [pathContents |-> m, varying |-> v, err |-> err]

\* the body that, on the first difference, takes the new object as baseline
ScanLine_ReplaceBaseline(st, line) ==
    IF line = EmptyLine THEN st
    ELSE LET c == st.pathContents[line.path]
         IN  IF c.typ = ""
             THEN [st EXCEPT !.pathContents[line.path] =
                                 Contents(line.typ, line.sha, FALSE)]
             ELSE IF c.varies
             THEN [st EXCEPT !.varying = Append(@, line.sha)]
             ELSE IF c.typ # line.typ \/ c.sha # line.sha
             THEN IF c.typ = "commit" \/ line.typ = "commit"
                  THEN [st EXCEPT !.err = Err("submodules", 0, <<>>)]
                  ELSE [st EXCEPT !.pathContents[line.path] =
                                      Contents(line.typ, line.sha, TRUE),
                                  !.varying = @ \o <<c.sha, line.sha>>]
             ELSE st

\* the body that, on the first difference, adds the new id only
ScanLine_NewIdOnly(st, line) ==
    IF line = EmptyLine THEN st
    ELSE LET c == st.pathContents[line.path]
         IN  IF c.typ = ""
             THEN [st EXCEPT !.pathContents[line.path] =
                                 Contents(line.typ, line.sha, FALSE)]
             ELSE IF c.varies
             THEN [st EXCEPT !.varying = Append(@, line.sha)]
             ELSE IF c.typ # line.typ \/ c.sha # line.sha
             THEN IF c.typ = "commit" \/ line.typ = "commit"
                  THEN [st EXCEPT !.err = Err("submodules", 0, <<>>)]
                  ELSE [st EXCEPT !.pathContents[line.path].varies = TRUE,
                                  !.varying = Append(@, line.sha)]
             ELSE st

\* the body that compares the first object seen at a path with the zero
\* value instead of taking it as the baseline
ScanLine_NoBaseline(st, line) ==
    IF line = EmptyLine THEN st
    ELSE LET c == st.pathContents[line.path]
         IN  IF c.varies
             THEN [st EXCEPT !.varying = Append(@, line.sha)]
             ELSE IF c.typ # line.typ \/ c.sha # line.sha
             THEN IF c.typ = "commit" \/ line.typ = "commit"
                  THEN [st EXCEPT !.err = Err("submodules", 0, <<>>)]
                  ELSE [st EXCEPT !.pathContents[line.path] =
                                      Contents(line.typ, line.sha, TRUE),
                                  !.varying = Append(@, line.sha)]
             ELSE st

\* src/main.go:558-599: the body of the inner loop for one line
ScanLine(st, line) ==
    IF line = EmptyLine THEN st
    ELSE IF line.typ \notin {"blob", "tree", "commit"}
    THEN [st EXCEPT !.err = Err("unexpected object type", 0, <<line.typ>>)]
    ELSE IF line.path = ""
    THEN [st EXCEPT !.err = Err("unexpected empty path", 0, <<>>)]
    ELSE IF ~ValidSha(line.sha)
    THEN [st EXCEPT !.err = Err("unexpected sha length", 0, <<>>)]
    ELSE LET c == st.pathContents[line.path]
         IN  IF c.typ = ""
             THEN [st EXCEPT !.pathContents[line.path] =
                                 Contents(line.typ, line.sha, FALSE)]
             ELSE IF c.varies
             THEN [st EXCEPT !.varying = Append(@, line.sha)]
             ELSE IF c.typ # line.typ \/ c.sha # line.sha
             THEN IF c.typ = "commit" \/ line.typ = "commit"
                  THEN [st EXCEPT !.err = Err("submodules", 0, <<>>)]
                  ELSE [st EXCEPT !.pathContents[line.path].varies = TRUE,
                                  !.varying = @ \o <<c.sha, line.sha>>]
             ELSE st

\* src/main.go:557: the inner loop, left at the first error
RECURSIVE ScanLines(_, _)
ScanLines(st, lines) ==
    IF lines = <<>> \/ st.err # Nil THEN st
    ELSE ScanLines(ScanLine(st, Head(lines)), Tail(lines))

\* src/main.go:549-601: one turn of the outer loop, given the run of ls-tree
ScanTree(st, run) ==
    IF RunError(run) # Nil THEN [st EXCEPT !.err = RunError(run)]
    ELSE ScanLines(st, Split(run.out, EmptyLine))

\* the whole function, git not failing: the outer loop over the trees and
\* the return
RECURSIVE ScanTrees(_, _)
ScanTrees(st, trees) ==
    IF trees = <<>> \/ st.err # Nil THEN st
    ELSE ScanTrees(ScanTree(st, GitLsTree(Head(trees))), Tail(trees))

VaryingPaths(trees) ==
    LET st == ScanTrees(Scan([p \in Paths |-> NoContents], <<>>, Nil), trees)
    IN  IF st.err # Nil THEN [varying |-> <<>>, err |-> st.err]
        ELSE [varying |-> st.varying, err |-> Nil]

InitVPLoop ==
    /\ vpNext = 1
    /\ pathContents = [p \in Paths |-> NoContents]
    /\ varying = <<>>
    /\ vpPc = "loop"
    /\ vpResult = [varying |-> <<>>, err |-> Nil]

InitVP ==
    /\ vpTrees \in SeqsUpTo(TreeIds, MaxTrees)
    /\ InitVPLoop
    /\ InitStream0
    /\ InitUA0
    /\ InitMP0
    /\ InitRM0

\* lines 548-601: list the next tree and scan its lines; git may fail for
\* reasons of its own (fatal); an error returns (nil, err)
ListTree ==
    /\ vpPc = "loop"
    /\ vpNext <= Len(vpTrees)
    /\ \E fatal \in BOOLEAN :
         LET run == IF fatal THEN FatalRun ELSE GitLsTree(vpTrees[vpNext])
             st == ScanTree(Scan(pathContents, varying, Nil), run)
         IN  /\ pathContents' = st.pathContents
             /\ varying' = st.varying
             /\ IF st.err # Nil
                THEN /\ vpResult' = [varying |-> <<>>, err |-> st.err]
                     /\ vpPc' = "done"
                     /\ UNCHANGED vpNext
                ELSE /\ vpNext' = vpNext + 1
                     /\ UNCHANGED <<vpPc, vpResult>>
    /\ UNCHANGED <<vpTrees, streamVars, uaVars, mpVars, rmVars>>

\* line 602: the trees are exhausted, return (varying, nil)
ReturnVarying ==
    /\ vpPc = "loop"
    /\ vpNext > Len(vpTrees)
    /\ vpResult' = [varying |-> varying, err |-> Nil]
    /\ vpPc' = "done"
    /\ UNCHANGED <<vpTrees, vpNext, pathContents, varying, streamVars, uaVars, mpVars,
                   rmVars>>

NextVP == ListTree \/ ReturnVarying

SpecVP == InitVP /\ [][NextVP]_vars

----------------------------------------------------------------------------
(* Git.MergePack, src/main.go:619-649, and its caller, over a repository.  *)

\* number of commits in the history MergePack runs against
MaxHistory == 3

History == 1..MaxHistory
HistoryGraphs ==
    {g \in [History -> SUBSET History] : \A c \in History : g[c] \subseteq 1..(c - 1)}

\* the root trees of the history's commits: the file "a" in its two versions
\* or turned into a submodule, and nothing else
HistorySnapshots == {s \in Snapshots : s.d = NoEntry}

\* rev-list without `--not base`: everything reachable from a tip
RevList_NoNot(ts, base) == UNION {Anc(ts[i]) : i \in 1..Len(ts)}

\* `git rev-list tips... --not base` prints the commits reachable from a tip
\* and not from base
RevList(ts, base) == UNION {Anc(ts[i]) : i \in 1..Len(ts)} \ Anc(base)

\* the orders it can print them in: the walk starts at the tips and reaches
\* a commit only through one of its children
RevListOrders(ts, base) ==
    {o \in Orderings(RevList(ts, base)) :
        \A i \in 1..Len(o) :
            \/ \E k \in 1..Len(ts) : o[i] = ts[k]
            \/ \E j \in 1..(i - 1) : o[i] \in parents[o[j]]}

\* the empty string names no commit: a fatal error of git
GitRevList(base, order) ==
    IF base = EmptyId THEN FatalRun
    ELSE [exit |-> ExitOK, out |-> Output(order)]

\* commitsBetween that leaves the base out
CommitsBetween_NoBase(run, base) ==
    IF RunError(run) # Nil THEN [commits |-> <<>>, err |-> RunError(run)]
    ELSE [commits |-> Split(TrimSpace(run.out), EmptyId), err |-> Nil]

\* Git.commitsBetween, src/main.go:507-523, given the run of rev-list
CommitsBetween(run, base) ==
    IF RunError(run) # Nil THEN [commits |-> <<>>, err |-> RunError(run)]
    ELSE [commits |-> Append(Split(TrimSpace(run.out), EmptyId), base), err |-> Nil]

\* the line "<request> missing" that cat-file prints for a request it cannot
\* resolve
Missing(c) == 0 - 1 - c

\* `git cat-file --buffer --batch-check=%(objectname)` fed one request
\* "<commit>^{tree}" per commit: one line per request, the id of the tree or
\* the missing line when the tree is in `lost`; the status is 0 either way
GitCatFile(cs, lost) ==
    [exit |-> ExitOK,
     out |-> Output([i \in 1..Len(cs) |->
                        IF cs[i] \in DOMAIN treeOf /\ cs[i] \notin lost
                        THEN TreeId(treeOf[cs[i]]) ELSE Missing(cs[i])])]

\* Git.treesReferenced, src/main.go:525-537, given the run of cat-file
TreesReferenced(run) ==
    IF RunError(run) # Nil THEN [trees |-> <<>>, err |-> RunError(run)]
    ELSE [trees |-> Split(TrimSpace(run.out), EmptyId), err |-> Nil]

\* the ids of the objects below a root tree that the repository stores (the
\* commit of a submodule is stored in the submodule's repository)
ObjectsOf(s) ==
    LET lines == LsTreeLines(s)
    IN  {lines[i].sha : i \in {j \in 1..Len(lines) : lines[j].typ # "commit"}}

\* the object store of the repository
Store ==
    DOMAIN treeOf
    \cup {TreeId(treeOf[c]) : c \in DOMAIN treeOf}
    \cup UNION {ObjectsOf(treeOf[c]) : c \in DOMAIN treeOf}

\* a pack, by the objects it holds; NoPack is the empty string
Pack(objects) == [made |-> TRUE, objects |-> objects]
NoPack == [made |-> FALSE, objects |-> {}]

\* `git pack-objects --stdout` fed one id per line: a pack of the objects
\* named, or a fatal error when one of them cannot be read
GitPackObjects(objs) ==
    IF \A i \in 1..Len(objs) : objs[i] \in Store
    THEN [exit |-> ExitOK, out |-> Pack({objs[i] : i \in 1..Len(objs)})]
    ELSE [exit |-> ExitFatal, out |-> NoPack]

\* packObjects that hands on what was printed whatever the exit status
PackObjects_IgnoreExit(run) == [pack |-> run.out, err |-> Nil]

\* Git.packObjects, src/main.go:605-617, given the run of pack-objects
PackObjects(run) ==
    IF RunError(run) # Nil THEN [pack |-> NoPack, err |-> RunError(run)]
    ELSE [pack |-> run.out, err |-> Nil]

\* the list without the ids that vary
Need_NoVarying(cs, ts, vs) == cs \o ts

\* src/main.go:638-641: the list handed to packObjects
Need(cs, ts, vs) == cs \o ts \o vs

\* a caller that sends the request whatever makeDeconflictRequestInfo returned
Uploads_Always(r) == TRUE

\* doMerge and doRebase, src/main.go:166-173 and 196-203: the request is
\* processed (sent) when makeDeconflictRequestInfo returned no error
Uploads(r) == r.err = Nil

InitMP ==
    /\ parents \in HistoryGraphs
    /\ tips \in History \X History
    /\ History = Anc(tips[1]) \cup Anc(tips[2])
    /\ treeOf \in [History -> HistorySnapshots]
    /\ commits = tips
    /\ uaPc = "query"
    /\ uaQueries = 0
    /\ uaLast = MergeBases([exit |-> ExitOK, lines |-> <<>>])
    /\ uaResult = [id |-> EmptyId, err |-> Nil]
    /\ mpPc = "ancestor"
    /\ mpCalls = <<"UniqueAncestorMergeBase">>
    /\ mpCommits = <<>>
    /\ mpTrees = <<>>
    /\ need = <<>>
    /\ mpResult = [pack |-> NoPack, err |-> Nil]
    /\ uploaded = FALSE
    /\ InitVP0
    /\ InitStream0
    /\ InitRM0

\* MergePack returns ("", err)
Fail(err) ==
    /\ mpResult' = [pack |-> NoPack, err |-> err]
    /\ mpPc' = "returned"

\* lines 620-628: the ancestor is back; on success commitsBetween is called
CallCommitsBetween ==
    /\ mpPc = "ancestor"
    /\ uaPc = "done"
    /\ IF uaResult.err # Nil
       THEN Fail(uaResult.err) /\ UNCHANGED <<mpCalls, mpCommits>>
       ELSE /\ mpCalls' = Append(mpCalls, "commitsBetween")
            /\ \E fatal \in BOOLEAN, order \in RevListOrders(tips, uaResult.id) :
                 LET r == CommitsBetween(IF fatal THEN FatalRun
                                         ELSE GitRevList(uaResult.id, order),
                                         uaResult.id)
                 IN  IF r.err # Nil
                     THEN Fail(r.err) /\ UNCHANGED mpCommits
                     ELSE mpCommits' = r.commits /\ mpPc' = "trees"
                          /\ UNCHANGED mpResult
    /\ UNCHANGED <<treeOf, mpTrees, need, uploaded, streamVars, uaVars, vpVars, rmVars>>

\* lines 629-634: treesReferenced is called; on success varyingPaths is
\* entered with its result.  The repository may have lost the tree of one
\* of the commits.
CallTreesReferenced ==
    /\ mpPc = "trees"
    /\ \E fatal \in BOOLEAN, lost \in {{}} \cup {{c} : c \in History} :
         LET r == TreesReferenced(IF fatal THEN FatalRun
                                  ELSE GitCatFile(mpCommits, lost))
         IN  IF r.err # Nil
             THEN /\ mpCalls' = Append(mpCalls, "treesReferenced")
                  /\ Fail(r.err)
                  /\ UNCHANGED <<mpTrees, vpVars>>
             ELSE /\ mpCalls' = mpCalls \o <<"treesReferenced", "varyingPaths">>
                  /\ mpTrees' = r.trees
                  /\ mpPc' = "varying"
                  /\ vpTrees' = r.trees
                  /\ vpNext' = 1
                  /\ pathContents' = [p \in Paths |-> NoContents]
                  /\ varying' = <<>>
                  /\ vpPc' = "loop"
                  /\ vpResult' = [varying |-> <<>>, err |-> Nil]
                  /\ UNCHANGED mpResult
    /\ UNCHANGED <<treeOf, mpCommits, need, uploaded, streamVars, uaVars, rmVars>>

\* lines 634-648: varyingPaths is back; on success the list is put together
\* and packObjects is called with it
CallPackObjects ==
    /\ mpPc = "varying"
    /\ vpPc = "done"
    /\ IF vpResult.err # Nil
       THEN Fail(vpResult.err) /\ UNCHANGED <<mpCalls, need>>
       ELSE /\ mpCalls' = Append(mpCalls, "packObjects")
            /\ need' = Need(mpCommits, mpTrees, vpResult.varying)
            /\ \E fatal \in BOOLEAN :
                 mpResult' = PackObjects(IF fatal THEN FatalRun
                                         ELSE GitPackObjects(need'))
            /\ mpPc' = "returned"
    /\ UNCHANGED <<treeOf, mpCommits, mpTrees, uploaded, streamVars, uaVars, vpVars,
                   rmVars>>

\* makeDeconflictRequestInfo, src/main.go:297-303, and doMerge/doRebase: an
\* error of MergePack is returned to main; otherwise the request is sent
ReturnToCaller ==
    /\ mpPc = "returned"
    /\ IF Uploads(mpResult)
       THEN uploaded' = TRUE /\ mpPc' = "uploaded"
       ELSE mpPc' = "failed" /\ UNCHANGED uploaded
    /\ UNCHANGED <<treeOf, mpCalls, mpCommits, mpTrees, need, mpResult,
                   streamVars, uaVars, vpVars, rmVars>>

NextMP ==
    \/ QueryMergeBases \/ SwitchOnBases
    \/ CallCommitsBetween
    \/ CallTreesReferenced
    \/ ListTree \/ ReturnVarying
    \/ CallPackObjects
    \/ ReturnToCaller

SpecMP == InitMP /\ [][NextMP]_vars

----------------------------------------------------------------------------
(* Git.packObjects, src/main.go:605-617, on its own: any list of names.    *)

\* longest list handed to packObjects
MaxObjects == 2

\* the names a list can hold: the ids of commits, root trees and blobs, and
\* the commit of a submodule
ObjectNames ==
    History \cup {TreeId(s) : s \in HistorySnapshots}
            \cup {e.sha : e \in Blobs} \cup {Submodule.sha}

InitPO ==
    /\ treeOf \in [History -> HistorySnapshots]
    /\ need \in SeqsUpTo(ObjectNames, MaxObjects)
    /\ mpPc = "pack"
    /\ mpCalls = <<"packObjects">>
    /\ mpCommits = <<>>
    /\ mpTrees = <<>>
    /\ mpResult = [pack |-> NoPack, err |-> Nil]
    /\ uploaded = FALSE
    /\ InitStream0
    /\ InitUA0
    /\ InitVP0
    /\ InitRM0

\* lines 605-617, and 643-648 of its caller: the list is written to
\* pack-objects, whose outcome is the outcome of MergePack
RunPackObjects ==
    /\ mpPc = "pack"
    /\ \E fatal \in BOOLEAN :
         mpResult' = PackObjects(IF fatal THEN FatalRun ELSE GitPackObjects(need))
    /\ mpPc' = "returned"
    /\ UNCHANGED <<treeOf, mpCalls, mpCommits, mpTrees, need, uploaded,
                   streamVars, uaVars, vpVars, rmVars>>

NextPO == RunPackObjects \/ ReturnToCaller

SpecPO == InitPO /\ [][NextPO]_vars

----------------------------------------------------------------------------
(* Git.Remotes, src/main.go:389-422, and deconflictRequest,                *)
(* src/http.go:58-74.                                                      *)

\* number of remotes configured
MaxRemotes == 2

\* the URLs a remote can have
URLs == {"https://github.com/a/r", "git@gitlab.com:a/r", "https://example.com/a/r"}

\* line 412: the URL contains "github.com" or "gitlab.com"
IsHosted(u) == u \in {"https://github.com/a/r", "git@gitlab.com:a/r"}

\* a remote has one URL, or two
URLLists == {<<u>> : u \in URLs} \cup {<<u, v>> : u \in URLs, v \in URLs}

\* `git remote` prints the names of the remotes; the k-th is named k here
GitRemote == [exit |-> ExitOK, out |-> Output([k \in 1..Len(remoteURLs) |-> k])]

\* `git remote get-url --all name`: the URLs of the remote, a fatal error for
\* a name that is no remote
GitRemoteGetURL(name) ==
    IF name \in 1..Len(remoteURLs)
    THEN [exit |-> ExitOK, out |-> Output(remoteURLs[name])]
    ELSE FatalRun

\* lines 411-419: the URLs of one remote are added to `all`, those that are
\* not hosted and those already in it left out
RECURSIVE AddURLs(_, _)
AddURLs(acc, urls) ==
    IF urls = <<>> THEN acc
    ELSE LET u == Head(urls)
         IN  AddURLs(IF IsHosted(u) /\ \A i \in 1..Len(acc) : acc[i] # u
                     THEN Append(acc, u) ELSE acc,
                     Tail(urls))

\* requests.Builder.Header: sets a header of the request, overwriting the
\* values the key had
Header(h, key, values) == [h EXCEPT ![key] = values]

\* the headers deconflictRequest sets, the client's identity left out
HeaderKeys == {"Main-Ref", "Topic-Ref", "Remote"}
NoHeaders == [k \in HeaderKeys |-> <<>>]

\* src/http.go:70-72: the loop over the remotes
RECURSIVE AddRemotes(_, _)
AddRemotes(h, remotes) ==
    IF remotes = <<>> THEN h
    ELSE AddRemotes(Header(h, "Remote", <<Head(remotes)>>), Tail(remotes))

\* src/http.go:60-73: the headers of the request, given what Remotes returned
DeconflictRequest(remotes) ==
    AddRemotes(Header(Header(NoHeaders, "Main-Ref", <<"main">>),
                      "Topic-Ref", <<"topic">>),
               remotes)

InitRM ==
    /\ remoteURLs \in SeqsUpTo(URLLists, MaxRemotes)
    /\ rmPc = "list"
    /\ rmNames = <<>>
    /\ rmNext = 0
    /\ all = <<>>
    /\ rmResult = [all |-> <<>>, err |-> Nil]
    /\ reqHeaders = <<>>
    /\ InitStream0
    /\ InitUA0
    /\ InitVP0
    /\ InitMP0

\* src/main.go:391-399: list the remotes; git may fail
ListRemotes ==
    /\ rmPc = "list"
    /\ \E fatal \in BOOLEAN :
         LET run == IF fatal THEN FatalRun ELSE GitRemote
         IN  IF RunError(run) # Nil
             THEN /\ rmResult' = [all |-> <<>>, err |-> RunError(run)]
                  /\ rmPc' = "returned"
                  /\ UNCHANGED <<rmNames, rmNext>>
             ELSE /\ rmNames' = Split(TrimSpace(run.out), EmptyId)
                  /\ rmNext' = 1
                  /\ rmPc' = "loop"
                  /\ UNCHANGED rmResult
    /\ UNCHANGED <<remoteURLs, all, reqHeaders, streamVars, uaVars, vpVars, mpVars>>

\* src/main.go:401-420: one turn of the loop; a remote whose URLs cannot be
\* had is passed over
GetURLs ==
    /\ rmPc = "loop"
    /\ rmNext <= Len(rmNames)
    /\ \E fatal \in BOOLEAN :
         LET run == IF fatal THEN FatalRun ELSE GitRemoteGetURL(rmNames[rmNext])
         IN  all' = IF RunError(run) # Nil THEN all
                    ELSE AddURLs(all, Split(TrimSpace(run.out), ""))
    /\ rmNext' = rmNext + 1
    /\ UNCHANGED <<remoteURLs, rmPc, rmNames, rmResult, reqHeaders,
                   streamVars, uaVars, vpVars, mpVars>>

\* src/main.go:421
ReturnRemotes ==
    /\ rmPc = "loop"
    /\ rmNext > Len(rmNames)
    /\ rmResult' = [all |-> all, err |-> Nil]
    /\ rmPc' = "returned"
    /\ UNCHANGED <<remoteURLs, rmNames, rmNext, all, reqHeaders,
                   streamVars, uaVars, vpVars, mpVars>>

\* src/http.go:59-73: the error of Remotes is dropped and the request built
BuildRequest ==
    /\ rmPc = "returned"
    /\ reqHeaders' = DeconflictRequest(rmResult.all)
    /\ rmPc' = "built"
    /\ UNCHANGED <<remoteURLs, rmNames, rmNext, all, rmResult,
                   streamVars, uaVars, vpVars, mpVars>>

NextRM == ListRemotes \/ GetURLs \/ ReturnRemotes \/ BuildRequest

SpecRM == InitRM /\ [][NextRM]_vars

----------------------------------------------------------------------------
(* Properties of the response stream, checked under Spec.                  *)

\* the stream has ended: the iterator has returned or is about to
Ended == pc \in {"unwind", "done"}

\* the items yielded so far are exactly one error
OneErrorOnly == Len(yielded) = 1 /\ IsError(yielded[1])

\* no message yet, and at most one item
NoMessage == Len(yielded) <= 1 /\ \A i \in 1..Len(yielded) : IsError(yielded[i])

(* C1: a response whose Merde-Server-API-Version header differs from the
   client's expected response version makes the stream yield exactly one
   item, an error, and no message; no multipart part is read before (or
   after) the failure.  For a 200 answer the error is the version error. *)
C1_VersionMismatch ==
    (resp.connected /\ resp.version # apiResponseVersion) =>
        /\ partsRead = 0
        /\ NoMessage
        /\ pc \in {"request", "body", "unwind", "done"}
        /\ pc # "request" => OneErrorOnly
        /\ (pc # "request" /\ resp.status = StatusOK) =>
               yielded[1].err = Err("version", 0, <<resp.version>>)

C1_Witness ==
    /\ pc = "done"
    /\ resp.connected /\ resp.status = StatusOK /\ resp.version # apiResponseVersion
    /\ resp.ctype = MultipartHeader
    /\ Len(resp.parts) > 0
    /\ OneErrorOnly
    /\ result.kind = "version"

(* C2 as stated: if the status is not 200 or the content type is not
   multipart/*, the stream yields exactly one error, which captures the
   status code and the body text, and no message. *)
C2_Original ==
    (pc = "done" /\ resp.connected
       /\ (resp.status # StatusOK \/ resp.ctype = "text/plain")) =>
        /\ OneErrorOnly
        /\ yielded[1].err.kind = "status"
        /\ yielded[1].err.code = resp.status
        /\ IsPrefix(yielded[1].err.detail, resp.text)

(* C2 amended: if the status is not 200 or the content type is not
   multipart/*, the stream yields exactly one error and no message, and no
   part is read.  For a status other than 200 the error captures the status
   code and the body text as far as it could be read; for a 200 answer it is
   the version error when the version header is wrong, else the error of
   parsing the Content-Type header, else an error naming the media type
   seen: these carry neither status code nor body text. *)
C2_BadStatusOrType ==
    (resp.connected /\ (resp.status # StatusOK \/ resp.ctype # MultipartHeader)) =>
        /\ partsRead = 0
        /\ NoMessage
        /\ pc \in {"request", "body", "unwind", "done"}
        /\ pc # "request" =>
            /\ OneErrorOnly
            /\ LET e == yielded[1].err
               IN  IF resp.status # StatusOK
                   THEN /\ e.kind = "status" /\ e.code = resp.status
                        /\ IsPrefix(e.detail, resp.text)
                        /\ Len(e.detail) = (IF resp.readable < Len(resp.text)
                                            THEN resp.readable ELSE Len(resp.text))
                   ELSE IF resp.version # apiResponseVersion
                   THEN e.kind = "version" /\ e.code = 0
                   ELSE IF resp.ctype = ""
                   THEN e = Err("mediatype", 0, <<>>)
                   ELSE e = Err("content-type", 0, <<resp.ctype>>)

C2_Witness ==
    /\ pc = "done"
    /\ resp.connected /\ resp.status = StatusOK /\ resp.version = apiResponseVersion
    /\ resp.ctype = "text/plain"
    /\ Len(resp.parts) > 0
    /\ OneErrorOnly
    /\ result.kind = "content-type"

(* C3: once a failure has been yielded no further item is ever yielded:
   every stream yields at most one error, that error is its last item, and
   after it the iterator reads no part and only returns. *)
C3_ErrorIsTerminal ==
    /\ \A i \in 1..Len(yielded) : IsError(yielded[i]) => i = Len(yielded)
    /\ (yielded # <<>> /\ IsError(yielded[Len(yielded)])) =>
           /\ pc \in {"body", "unwind", "done"}
           /\ partsRead <= Len(yielded)
           /\ Ended => result = yielded[Len(yielded)].err

C3_Witness ==
    /\ pc = "done"
    /\ Len(yielded) = 3
    /\ IsMessage(yielded[1]) /\ IsMessage(yielded[2]) /\ IsError(yielded[3])
    /\ yielded[3].err.kind = "envelope"

\* the part is one doRequest turns into a message
WellFormed(p) ==
    p.env /\ p.ok /\ p.ctype \in {"application/json", "application/octet-stream"}

\* the part has a Content-Type that is neither JSON nor octet-stream, or is
\* JSON that does not decode
BadContent(p) ==
    p.env /\ (p.ctype \notin {"application/json", "application/octet-stream"}
              \/ (p.ctype = "application/json" /\ ~p.ok))

\* the message is the one the k-th part of the response encodes
MessageOfPart(m, p) ==
    /\ WellFormed(p)
    /\ m.IsJSON = (p.ctype = "application/json")
    /\ m.IsJSON =>
          /\ m.Stdout = p.fields.Stdout /\ m.Stderr = p.fields.Stderr
          /\ m.ExitCode = p.fields.ExitCode
          /\ m.Ref = p.fields.Ref /\ m.SHA = p.fields.SHA
    /\ ~m.IsJSON =>
          /\ m.Data = p.data
          /\ m.Stdout = "" /\ m.Stderr = "" /\ m.ExitCode = 0 /\ m.Ref = "" /\ m.SHA = ""

(* C4: messages are yielded strictly in the arrival order of the parts, one
   message per part: the k-th yielded message is decoded from the k-th part,
   and a Binary message carries the complete bytes of exactly that part. *)
C4_ArrivalOrder ==
    /\ \A k \in 1..Len(yielded) :
          IsMessage(yielded[k]) =>
              /\ k <= Len(resp.parts)
              /\ k <= partsRead
              /\ MessageOfPart(yielded[k].msg, resp.parts[k])
    /\ partsRead <= Len(yielded)
    /\ partsRead <= Len(resp.parts)

C4_Witness ==
    /\ Len(yielded) = 3
    /\ \A k \in 1..3 : IsMessage(yielded[k])
    /\ ~yielded[1].msg.IsJSON /\ yielded[1].msg.Data = <<"P", "b", "c">>
    /\ yielded[2].msg.IsJSON /\ yielded[2].msg.Ref = "q"
    /\ ~yielded[3].msg.IsJSON /\ yielded[3].msg.Data = <<"P", "a">>

\* the place of the first part with bad content, all parts before it being
\* well formed; 0 if the response has none
FirstBad ==
    LET js == {j \in 1..Len(resp.parts) :
                  /\ BadContent(resp.parts[j])
                  /\ \A i \in 1..(j - 1) : WellFormed(resp.parts[i])}
    IN  IF js = {} THEN 0 ELSE CHOOSE j \in js : TRUE

\* the loop body gave up on a message, a side effect of it having failed:
\* it executed `return err`, which makes yield return false
StoppedOnMessage == result.kind \in {"create-ref", "unpack"}

(* C5: for a response of n well-formed parts followed by a part whose
   Content-Type is neither application/json nor application/octet-stream (or
   a JSON part that fails to decode), a caller that keeps pulling receives
   exactly the n messages, then one error, and no part after the bad one is
   decoded or yielded. *)
C5_BadPartEndsStream ==
    (PassesHeaders(resp) /\ FirstBad > 0) =>
        /\ partsRead <= FirstBad
        /\ Len(yielded) <= FirstBad
        /\ \A k \in 1..Len(yielded) : IsMessage(yielded[k]) <=> k < FirstBad
        /\ (pc = "done" /\ ~StoppedOnMessage) =>
              /\ Len(yielded) = FirstBad
              /\ result = yielded[FirstBad].err
              /\ result.kind = (IF resp.parts[FirstBad].ctype = "application/json"
                                THEN "json" ELSE "part-content-type")
              /\ processed = FirstBad - 1

C5_Witness ==
    /\ pc = "done"
    /\ FirstBad = 2 /\ Len(resp.parts) = 3
    /\ WellFormed(resp.parts[3])
    /\ resp.parts[2].ctype = "text/plain"
    /\ Len(yielded) = 2 /\ IsMessage(yielded[1]) /\ IsError(yielded[2])
    /\ partsRead = 2

(* C6: if the caller stops pulling before the end of the stream (the loop
   body returns, so yield returns false), the response body is closed when
   the iterator returns, no further part is read and the rest of the body is
   never drained. *)
C6_EarlyStop ==
    StoppedOnMessage =>
        /\ Ended
        /\ opened
        /\ partsRead = processed
        /\ Len(yielded) = processed
        /\ ~drained
        /\ pc = "done" => closed

C6_Witness ==
    /\ pc = "done"
    /\ StoppedOnMessage
    /\ partsRead < Len(resp.parts)
    /\ WellFormed(resp.parts[partsRead + 1])
    /\ closed

\* the k-th yielded item is a Structured message with a positive exit code
\* and the loop body has run on it
ExitDirectiveAt(k) ==
    /\ k \in 1..processed
    /\ yielded[k].msg.IsJSON
    /\ yielded[k].msg.ExitCode > 0

\* the k-th message asks for a reference that an earlier message made
RefTakenBefore(k) ==
    /\ yielded[k].msg.Ref # "" /\ yielded[k].msg.SHA # ""
    /\ \E j \in 1..(k - 1) :
          /\ yielded[j].msg.IsJSON
          /\ yielded[j].msg.Ref = yielded[k].msg.Ref /\ yielded[j].msg.SHA # ""

(* C7 as stated: when a Structured message with an exit code greater than 0
   is processed, the caller observes the exit directive and stops
   processing: no later part of the stream is read or processed after it. *)
C7_Original ==
    \A k \in 1..Len(yielded) :
        ExitDirectiveAt(k) =>
            /\ pc = "exited" /\ exitCode = yielded[k].msg.ExitCode
            /\ processed = k /\ partsRead = k /\ Len(yielded) = k

(* C7 amended: when a Structured message with an exit code greater than 0 is
   processed, no later part of the stream is read or processed after it, and
   the caller observes the exit directive unless creating the reference the
   message names fails: then Process returns that error before it reaches
   the exit code, and the loop returns the error instead of exiting. *)
C7_ExitDirective ==
    \A k \in 1..Len(yielded) :
        ExitDirectiveAt(k) =>
            /\ processed = k /\ partsRead = k /\ Len(yielded) = k
            /\ IF RefTakenBefore(k)
               THEN Ended /\ result.kind = "create-ref" /\ exitCode = 0
               ELSE pc = "exited" /\ exitCode = yielded[k].msg.ExitCode /\ result = Nil

C7_Witness ==
    /\ pc = "exited"
    /\ exitCode = 2
    /\ ExitDirectiveAt(processed)
    /\ processed = 2
    /\ Len(resp.parts) = 3 /\ WellFormed(resp.parts[3])
    /\ partsRead = 2

\* the number of messages whose side effects the loop body applied in full
Applied == IF StoppedOnMessage THEN processed - 1 ELSE processed

\* the bytes of the binary messages among the first n yielded, in order
BinaryData(n) ==
    LET bin == SelectSeq(SubSeq(yielded, 1, n), LAMBDA it : ~it.msg.IsJSON)
    IN  [i \in 1..Len(bin) |-> bin[i].msg.Data]

(* C8: the side effects of the messages already processed (a reference
   created, a binary pack imported) are not rolled back when a later part or
   a later side effect fails: the operation returns the error with those
   effects still in place. *)
C8_NoRollback ==
    /\ Applied <= Len(yielded)
    /\ refs = {yielded[k].msg.Ref : k \in {j \in 1..processed :
                  /\ yielded[j].msg.IsJSON
                  /\ yielded[j].msg.Ref # "" /\ yielded[j].msg.SHA # ""}}
    /\ imported = (IF Unpacks(caller) THEN BinaryData(Applied) ELSE <<>>)

C8_Witness ==
    /\ pc = "done"
    /\ caller = "deconflict"
    /\ result # Nil
    /\ refs # {}
    /\ imported # <<>>
    /\ processed = 2

----------------------------------------------------------------------------
(* Properties of UniqueAncestorMergeBase, checked under SpecUA.            *)

\* the commits both tips descend from
CommonHistory == Anc(tips[1]) \cap Anc(tips[2])

(* C9: for tips with disjoint (unrelated) histories, that is when the
   merge-base query yields no base, UniqueAncestorMergeBase returns the
   empty id and never an error (git itself working). *)
C9_DisjointGivesEmpty ==
    (uaPc = "done" /\ CommonHistory = {} /\ uaLast.exit # ExitFatal) =>
        uaResult = [id |-> EmptyId, err |-> Nil]

----------------------------------------------------------------------------
(* Properties of MergePack's steps, checked under SpecMP.                  *)

Range(q) == {q[i] : i \in 1..Len(q)}
NoRepeat(q) == \A i, j \in 1..Len(q) : q[i] = q[j] => i = j

\* commitsBetween has returned a list
CommitsBetweenReturned ==
    mpPc \in {"trees", "varying", "returned", "uploaded", "failed"} /\ mpCommits # <<>>

\* the commits reachable from a tip and not from the base
UniqueToTips ==
    {c \in History : (c \in Anc(tips[1]) \/ c \in Anc(tips[2])) /\ c \notin Anc(uaResult.id)}

(* C11: commitsBetween(base, tips) returns exactly the commits reachable
   from any tip but not reachable from base, plus base itself, and nothing
   else, each once and base last; when no commit is unique to a tip it
   returns base alone. *)
C11_CommitsBetween ==
    CommitsBetweenReturned =>
        /\ Range(mpCommits) = UniqueToTips \cup {uaResult.id}
        /\ NoRepeat(mpCommits)
        /\ mpCommits[Len(mpCommits)] = uaResult.id
        /\ UniqueToTips = {} => mpCommits = <<uaResult.id>>

C11_Witness ==
    /\ mpPc = "trees"
    /\ tips[1] = tips[2]
    /\ UniqueToTips = {}
    /\ mpCommits = <<tips[1]>>

\* treesReferenced has returned a list
TreesReferencedReturned ==
    mpPc \in {"varying", "returned", "uploaded", "failed"} /\ mpTrees # <<>>

(* C12: treesReferenced returns one tree id per input commit, in the order
   of the commits; when a commit cannot be resolved the operation fails and
   returns no list, so a list that is returned holds tree ids only. *)
C12_TreesReferenced ==
    TreesReferencedReturned =>
        /\ Len(mpTrees) = Len(mpCommits)
        /\ \A i \in 1..Len(mpTrees) : mpTrees[i] = TreeId(treeOf[mpCommits[i]])

----------------------------------------------------------------------------
(* Properties of varyingPaths, checked under SpecVP.                       *)

\* varyingPaths has returned, and git did not fail under it
VaryingReturned == vpPc = "done" /\ vpResult.err.kind # "git"

\* the root tree handed over as the k-th tree
TreeAt(k) == SnapshotOf(vpTrees[k])

\* the object a root tree holds at a path, NoEntry when it holds none
EntryAt(s, p) ==
    IF p = "a" THEN s.a
    ELSE IF p = "d" THEN s.d
    ELSE IF s.d.typ = "tree" THEN DirFile(s.d) ELSE NoEntry

\* the two trees differ in the content of the file at p and in nothing else
\* (a directory above p differs with it)
DifferOnlyAt(p) ==
    /\ Len(vpTrees) = 2
    /\ EntryAt(TreeAt(1), p).typ = "blob" /\ EntryAt(TreeAt(2), p).typ = "blob"
    /\ EntryAt(TreeAt(1), p) # EntryAt(TreeAt(2), p)
    /\ TreeAt(1).a # TreeAt(2).a => p = "a"
    /\ TreeAt(1).d # TreeAt(2).d => p \in {"d", "d/x"}

TwoBlobsAt(p) == {EntryAt(TreeAt(1), p).sha, EntryAt(TreeAt(2), p).sha}

(* C13 as stated: given two trees that differ only in one file's content at
   path p, p at any depth, the result is exactly the two blob ids listed for
   p and holds no id of any other path. *)
C13_Original ==
    \A p \in Paths :
        (VaryingReturned /\ DifferOnlyAt(p)) =>
            /\ vpResult.err = Nil
            /\ Range(vpResult.varying) = TwoBlobsAt(p)

(* C13 amended: given two trees that differ only in one file's content at
   path p, the call succeeds and the result is the two blob ids listed for
   p when p is at the top level; when p lies in a directory the result also
   holds the two ids of that directory, which differ with the file, and
   nothing else.  Each id is in the result once. *)
C13_OneFileDiffers ==
    \A p \in Paths :
        (VaryingReturned /\ DifferOnlyAt(p)) =>
            /\ vpResult.err = Nil
            /\ NoRepeat(vpResult.varying)
            /\ Range(vpResult.varying) =
                  IF p = "d/x"
                  THEN TwoBlobsAt(p) \cup {TreeAt(1).d.sha, TreeAt(2).d.sha}
                  ELSE TwoBlobsAt(p)

C13_Witness ==
    /\ VaryingReturned
    /\ DifferOnlyAt("d/x")
    /\ Len(vpResult.varying) = 4

\* some path holds a submodule in one tree and a file or directory in another
SubmoduleDiverges ==
    \E p \in Paths, i, j \in 1..Len(vpTrees) :
        /\ EntryAt(TreeAt(i), p).typ = "commit"
        /\ EntryAt(TreeAt(j), p).typ \in {"blob", "tree"}

(* C14: for any sequence of trees in which some path is a submodule
   reference in one tree and a regular file or directory in another, the
   call fails with the unsupported-divergence error and returns no partial
   result. *)
C14_SubmoduleDivergence ==
    (VaryingReturned /\ SubmoduleDiverges) =>
        /\ vpResult.err = Err("submodules", 0, <<>>)
        /\ vpResult.varying = <<>>

\* the outcome of a call: failure, or the result as a set of ids
Outcome(r) == [failed |-> r.err # Nil, ids |-> Range(r.varying)]

\* the sequence q in another order
Permuted(q, o) == [i \in 1..Len(q) |-> q[o[i]]]

(* C15: the outcome of varyingPaths (the result as a set of ids, or failure)
   is the same for every permutation of the input trees. *)
C15_OrderIndependent ==
    VaryingReturned =>
        \A o \in Orderings(1..Len(vpTrees)) :
            Outcome(VaryingPaths(Permuted(vpTrees, o))) = Outcome(vpResult)

\* no tree holds a submodule
NoSubmodule ==
    \A p \in Paths, i \in 1..Len(vpTrees) : EntryAt(TreeAt(i), p).typ # "commit"

\* the paths at which two of the trees list different objects
VaryingAt ==
    {p \in Paths : \E i, j \in 1..Len(vpTrees) :
        /\ EntryAt(TreeAt(i), p) # NoEntry /\ EntryAt(TreeAt(j), p) # NoEntry
        /\ EntryAt(TreeAt(i), p) # EntryAt(TreeAt(j), p)}

(* C16: without submodule entries the call succeeds and the result, as a
   set, is the set of all ids listed by any input tree at a path where two
   input trees list different (kind, id): every id seen at such a path is
   in it, and no id seen only at paths where the trees agree. *)
C16_ResultSet ==
    (VaryingReturned /\ NoSubmodule) =>
        /\ vpResult.err = Nil
        /\ Range(vpResult.varying) =
              {EntryAt(TreeAt(i), p).sha : i \in 1..Len(vpTrees), p \in VaryingAt}
                  \ {NoEntry.sha}

C16_Witness ==
    /\ VaryingReturned /\ NoSubmodule
    /\ Len(vpTrees) = 3
    /\ VaryingAt = {"d", "d/x"}
    /\ Cardinality(Range(vpResult.varying)) = 4

(* C17: varyingPaths over a single tree, or over several identical trees,
   returns the empty set. *)
C17_IdenticalTrees ==
    (VaryingReturned /\ vpTrees # <<>> /\ \A i \in 1..Len(vpTrees) : vpTrees[i] = vpTrees[1]) =>
        /\ vpResult.err = Nil
        /\ vpResult.varying = <<>>

C17_Witness ==
    /\ VaryingReturned
    /\ Len(vpTrees) = 3
    /\ \A i \in 1..3 : vpTrees[i] = vpTrees[1]
    /\ TreeAt(1).d.typ = "tree"
    /\ TreeAt(1).a.typ = "commit"
    /\ vpResult.varying = <<>>

----------------------------------------------------------------------------
(* Properties of MergePack as a whole, checked under SpecMP.               *)

\* packObjects has been called: the list `need` has been handed over
NeedHanded == Len(mpCalls) = 5

TreesOf(cs) == {TreeId(treeOf[c]) : c \in cs}

\* the ids listed, by the trees of the commits cs, at a path where two of
\* these trees list different objects
FoundToVary(cs) ==
    LET at == {p \in Paths : \E c1, c2 \in cs :
                  /\ EntryAt(treeOf[c1], p) # NoEntry /\ EntryAt(treeOf[c2], p) # NoEntry
                  /\ EntryAt(treeOf[c1], p) # EntryAt(treeOf[c2], p)}
    IN  {EntryAt(treeOf[c], p).sha : c \in cs, p \in at} \ {NoEntry.sha}

\* the example: topic is one commit on top of main and changes the file a
OneCommitTopic ==
    /\ parents[tips[2]] = {tips[1]}
    /\ treeOf[tips[1]].a.typ = "blob" /\ treeOf[tips[2]].a.typ = "blob"
    /\ treeOf[tips[1]].a # treeOf[tips[2]].a

(* C18 as stated: the object list handed to the pack assembler contains only
   (a) commits unique to some tip, (b) trees directly referenced by those
   commits, and (c) objects found to vary at some path across those trees. *)
C18_Original ==
    NeedHanded =>
        Range(need) \subseteq
            UniqueToTips \cup TreesOf(UniqueToTips) \cup FoundToVary(UniqueToTips)

(* C18 amended: the object list handed to the pack assembler holds exactly
   (a) the commits unique to some tip and the base commit, (b) the trees
   directly referenced by these commits, the base's tree included, and (c)
   the objects found to vary at some path across these trees; in the
   one-commit topic example it is exactly main's commit, the topic commit,
   their two trees and the two blobs of the changed file, each once. *)
C18_NeedList ==
    NeedHanded =>
        LET cs == UniqueToTips \cup {uaResult.id}
        IN  /\ Range(need) = cs \cup TreesOf(cs) \cup FoundToVary(cs)
            /\ OneCommitTopic =>
                  /\ uaResult.id = tips[1]
                  /\ Range(need) = {tips[1], tips[2],
                                    TreeId(treeOf[tips[1]]), TreeId(treeOf[tips[2]]),
                                    treeOf[tips[1]].a.sha, treeOf[tips[2]].a.sha}
                  /\ Len(need) = 6

C18_Witness ==
    /\ mpPc = "uploaded"
    /\ OneCommitTopic
    /\ mpResult.pack.made
    /\ Cardinality(mpResult.pack.objects) = 6

(* C19 as stated: the object list passed to the pack assembler is
   deduplicated: no object id occurs in it more than once. *)
C19_Original == NeedHanded => NoRepeat(need)

(* C19 amended: the list passed to the pack assembler is the commits, then
   one tree id per commit, then the varying ids in the order found.  No
   commit occurs twice in it, but it is not deduplicated: the id of a tree
   shared by two commits occurs once per commit, and an id seen again at a
   path that varies occurs again.  The pack made from it holds each of its
   objects. *)
C19_NeedRepeats ==
    NeedHanded =>
        /\ need = mpCommits \o mpTrees \o vpResult.varying
        /\ NoRepeat(mpCommits)
        /\ Len(mpTrees) = Len(mpCommits)
        /\ \A i \in 1..Len(mpTrees) : mpTrees[i] = TreeId(treeOf[mpCommits[i]])
        /\ Range(mpCommits) \cap (Range(mpTrees) \cup Range(vpResult.varying)) = {}
        /\ mpResult.pack.made => mpResult.pack.objects = Range(need)

C19_Witness ==
    /\ mpPc = "uploaded"
    /\ ~NoRepeat(mpTrees)
    /\ ~NoRepeat(vpResult.varying)
    /\ Cardinality(mpResult.pack.objects) < Len(need)

\* the steps of MergePack, in the order of the code
MergePackSteps ==
    <<"UniqueAncestorMergeBase", "commitsBetween", "treesReferenced",
      "varyingPaths", "packObjects">>

(* C20: MergePack runs ancestor resolution, commitsBetween, treesReferenced,
   varyingPaths and packObjects strictly in that order, each at most once; a
   step is invoked only when every step before it has succeeded; when a step
   fails no pack is returned and no upload request is made. *)
C20_StepOrder ==
    /\ IsPrefix(mpCalls, MergePackSteps)
    /\ Len(mpCalls) >= 2 => uaPc = "done" /\ uaResult.err = Nil
    /\ Len(mpCalls) >= 3 => mpCommits # <<>>
    /\ Len(mpCalls) >= 4 => mpTrees # <<>>
    /\ Len(mpCalls) >= 5 => vpPc = "done" /\ vpResult.err = Nil
    /\ vpNext <= Len(vpTrees) + 1
    /\ mpResult.err # Nil =>
          /\ mpPc \in {"returned", "failed"}
          /\ mpResult.pack = NoPack
          /\ ~uploaded
    /\ uploaded => mpResult.err = Nil /\ mpResult.pack.made /\ Len(mpCalls) = 5
    /\ mpPc \in {"returned", "failed", "uploaded"} =>
          (mpResult.err = Nil) = (Len(mpCalls) = 5 /\ mpResult.pack.made)

C20_Witness ==
    /\ mpPc = "failed"
    /\ vpResult.err = Err("submodules", 0, <<>>)
    /\ mpCalls = SubSeq(MergePackSteps, 1, 4)
    /\ need = <<>>
    /\ ~uploaded

----------------------------------------------------------------------------
(* Properties of packObjects, checked under SpecPO.                        *)

\* packObjects has returned
PackReturned == mpPc \in {"returned", "failed", "uploaded"}

\* pack-objects can read every object of the list
AllReadable == \A i \in 1..Len(need) : need[i] \in Store

----------------------------------------------------------------------------
(* MergePack on tips without divergence, checked under SpecMP.             *)

(* C22: when both tips resolve to the same commit, which then is the base,
   commitsBetween returns that commit alone, treesReferenced its tree alone,
   the varying set is empty, and the object list passed to the pack
   assembler is exactly that one commit and its tree. *)
C22_NoDivergence ==
    tips[1] = tips[2] =>
        /\ (uaPc = "done" /\ uaResult.err = Nil) => uaResult.id = tips[1]
        /\ CommitsBetweenReturned => mpCommits = <<tips[1]>>
        /\ TreesReferencedReturned =>
              \/ mpTrees = <<TreeId(treeOf[tips[1]])>>
              \/ mpTrees = <<Missing(tips[1])>>
        /\ NeedHanded =>
              /\ vpResult.varying = <<>>
              /\ need = <<tips[1], TreeId(treeOf[tips[1]])>>

C22_Witness ==
    /\ mpPc = "uploaded"
    /\ tips[1] = tips[2]
    /\ parents[tips[1]] # {}
    /\ need = <<tips[1], TreeId(treeOf[tips[1]])>>
    /\ mpResult.pack.objects = {tips[1], TreeId(treeOf[tips[1]])}

----------------------------------------------------------------------------
(* Properties of deconflictRequest, checked under SpecRM.                  *)

(* C23: the request carries one Remote header value for every distinct
   remote URL returned by Remotes, each once and none dropped; a failure to
   list the remotes does not keep the request from being built. *)
C23_RemoteHeaders ==
    /\ rmPc = "built" =>
          /\ NoRepeat(reqHeaders["Remote"])
          /\ Range(reqHeaders["Remote"]) = Range(rmResult.all)
    /\ rmResult.err # Nil => rmPc \in {"returned", "built"}

----------------------------------------------------------------------------
(* Properties of the loop of processDeconflictRequest and of               *)
(* Response.Process, checked under Spec.                                   *)

\* the references the first n yielded messages ask for
RefsAsked(n) ==
    {yielded[k].msg.Ref : k \in {j \in 1..n :
        /\ yielded[j].msg.IsJSON
        /\ yielded[j].msg.Ref # "" /\ yielded[j].msg.SHA # ""}}

(* C24: in processDeconflictRequest the side effect of each yielded part is
   complete before the next part is pulled: whenever the iterator is about
   to read a part, every part read so far has been yielded and handled, the
   binary ones imported and the references of the structured ones created;
   at most one part is ever read and not yet handled.  When the side effect
   of a part fails the loop returns that error, and no later part is pulled
   or handled. *)
C24_EffectBeforePull ==
    caller = "deconflict" =>
        /\ partsRead <= processed + 1
        /\ pc = "next" =>
              /\ processed = partsRead /\ Len(yielded) = partsRead
              /\ imported = BinaryData(processed)
              /\ refs = RefsAsked(processed)
        /\ StoppedOnMessage =>
              /\ Ended
              /\ partsRead = processed /\ Len(yielded) = processed
              /\ imported = BinaryData(processed - 1)
              /\ result.kind = "unpack" => ~yielded[processed].msg.IsJSON
              /\ result.kind = "create-ref" =>
                    /\ yielded[processed].msg.IsJSON
                    /\ yielded[processed].msg.Ref \in RefsAsked(processed - 1)

C24_Witness ==
    /\ caller = "deconflict"
    /\ pc = "done"
    /\ result.kind = "unpack"
    /\ processed = 2 /\ partsRead = 2
    /\ Len(resp.parts) = 3 /\ WellFormed(resp.parts[3])
    /\ imported = <<yielded[1].msg.Data>>

\* the effects of Process on r, in the order claimed, the repository holding
\* the references rs
ClaimedEffects(r, rs) ==
    LET create == r.Ref # "" /\ r.SHA # ""
        wanted(e) == \/ e.what = "create-ref" /\ create
                     \/ e.what = "stdout" /\ r.Stdout # ""
                     \/ e.what = "stderr" /\ r.Stderr # ""
                     \/ e.what = "exit" /\ r.ExitCode > 0
    IN  IF ~r.IsJSON \/ (create /\ r.Ref \in rs) THEN <<>>
        ELSE SelectSeq(<<Effect("create-ref", r.Ref), Effect("stdout", r.Stdout),
                         Effect("stderr", r.Stderr), Effect("exit", "")>>, wanted)

\* what one run of the loop body on a message does
ProcessStep ==
    (pc = "body" /\ IsMessage(cur) /\ processed' = processed + 1) =>
        LET r == cur.msg
            create == r.Ref # "" /\ r.SHA # ""
            new == SubSeq(effects', Len(effects) + 1, Len(effects'))
            isUnpack(e) == e.what = "unpack"
            notUnpack(e) == e.what # "unpack"
        IN  /\ SelectSeq(new, notUnpack) = ClaimedEffects(r, refs)
            /\ refs' = IF r.IsJSON /\ create THEN refs \cup {r.Ref} ELSE refs
            /\ IF r.IsJSON
               THEN /\ SelectSeq(new, isUnpack) = <<>>
                    /\ imported' = imported
                    /\ IF create /\ r.Ref \in refs
                       THEN /\ result' = Err("create-ref", 0, <<r.Ref>>)
                            /\ stdout' = stdout /\ stderr' = stderr
                            /\ pc' # "exited"
                       ELSE /\ stdout' = stdout \o (IF r.Stdout # "" THEN <<r.Stdout>> ELSE <<>>)
                            /\ stderr' = stderr \o (IF r.Stderr # "" THEN <<r.Stderr>> ELSE <<>>)
                            /\ (pc' = "exited") = (r.ExitCode > 0)
                            /\ pc' = "exited" => exitCode' = r.ExitCode
                            /\ pc' # "exited" => result' = Nil
               ELSE /\ stdout' = stdout /\ stderr' = stderr
                    /\ pc' # "exited"
                    /\ caller = "deconflict" =>
                          \/ imported' = Append(imported, r.Data) /\ result' = Nil
                          \/ imported' = imported /\ result' = Err("unpack", 0, <<>>)

(* C25: Response.Process on a Structured message applies its effects in the
   order create-reference, stdout, stderr, exit; the reference is created
   only when both ref and sha are non-empty, and when creation fails Process
   returns the error, prints nothing and does not exit.  On a Binary message
   it has no effect and reports not-processed (so that the caller unpacks
   the data). *)
C25_ProcessOrder == [][ProcessStep]_vars

C25_Witness ==
    /\ pc = "exited"
    /\ Len(effects) >= 4
    /\ SubSeq(effects, Len(effects) - 3, Len(effects)) =
          <<Effect("create-ref", "q"), Effect("stdout", "o"),
            Effect("stderr", "e"), Effect("exit", "")>>
    /\ exitCode = 2

----------------------------------------------------------------------------
(* The baselines of varyingPaths, checked under SpecVP.                    *)

\* the trees that list the path
Listers(p) == {k \in 1..Len(vpTrees) : EntryAt(TreeAt(k), p) # NoEntry}

\* the first of them
FirstLister(p) == CHOOSE k \in Listers(p) : \A j \in Listers(p) : k <= j

\* in every state: a path that one tree alone lists, or that is listed with
\* the same (kind, id) wherever it appears, is not marked varying and has
\* added no id; a baseline is the first (kind, id) observed
BaselineIsFirst ==
    /\ \A p \in Paths :
          /\ pathContents[p].varies => p \in VaryingAt
          /\ pathContents[p].typ # "" =>
                /\ Listers(p) # {}
                /\ pathContents[p].typ = EntryAt(TreeAt(FirstLister(p)), p).typ
                /\ pathContents[p].sha = EntryAt(TreeAt(FirstLister(p)), p).sha
    /\ Range(varying) \subseteq
          {EntryAt(TreeAt(i), p).sha : i \in 1..Len(vpTrees), p \in VaryingAt}
    /\ Len(varying) <= Cardinality({<<i, p>> \in (1..Len(vpTrees)) \X VaryingAt :
                                       EntryAt(TreeAt(i), p) # NoEntry})
    /\ vpPc = "done" => Range(vpResult.varying) \subseteq Range(varying)

\* in every step: a baseline once recorded keeps its (kind, id), and a path
\* marked varying stays so
BaselineKept ==
    \A p \in Paths :
        pathContents[p].typ # "" =>
            /\ pathContents'[p].typ = pathContents[p].typ
            /\ pathContents'[p].sha = pathContents[p].sha
            /\ pathContents[p].varies => pathContents'[p].varies

(* C26: a path that is listed by only one of the input trees, or listed with
   the same (kind, id) wherever it appears, never becomes varying and
   contributes no id to the result; the baseline recorded for a path is the
   first observed (kind, id) and is never replaced. *)
C26_Baseline == []BaselineIsFirst /\ [][BaselineKept]_vars

C26_Witness ==
    /\ vpPc = "done" /\ vpResult.err = Nil
    /\ Len(vpTrees) = 3
    /\ Listers("d") = {2}
    /\ pathContents["d"] = Contents(TreeAt(2).d.typ, TreeAt(2).d.sha, FALSE)
    /\ VaryingAt = {"a"}
    /\ TreeAt(3).a # TreeAt(1).a
    /\ pathContents["a"] = Contents(TreeAt(1).a.typ, TreeAt(1).a.sha, TRUE)
    /\ Range(vpResult.varying) = {TreeAt(1).a.sha, TreeAt(3).a.sha}
====
